---- MODULE Spec2Model ----
(***************************************************************************)
(* Model of the controller manager entry point (main.go): flag defaults,   *)
(* flag parsing, and main()'s startup sequence up to and including the     *)
(* return of mgr.Start.  Every statement of main() that can end the        *)
(* process is one action; an error returned by a callee is an input drawn  *)
(* from BOOLEAN.                                                           *)
(***************************************************************************)
EXTENDS Naturals, Integers, Sequences, FiniteSets

VARIABLES
    pc,            \* position of main()
    flags,         \* the package-level flag variables (lines 64-80)
    profiler,      \* the pprof goroutine of lines 93-95: "off" | "serving" | "failed"
    logger,        \* ctrl.SetLogger called (line 98)
    broadcaster,   \* the event broadcaster's options, NoBroadcaster before line 102
    mgr,           \* the ctrl.Options the manager was built with, NoManager before
    recorder,      \* name the event recorder was initialised for, "" before line 127
    ctx,           \* the context of line 130: NoCtx before, SignalCtx after
    ctxHolders,    \* the callees that were handed ctx
    reconcilers,   \* reconcilers set up with the manager
    webhooks,      \* webhooks set up with the manager
    readyz,        \* names of the readiness checks added
    healthz,       \* names of the liveness checks added
    steps,         \* the calls main() has made from ctrl.NewManager on, in order
    failedStep,    \* the call that returned an error, NoStep when none did
    leaseAttempts, \* lease acquisitions the started manager has attempted
    exit           \* Running while the process lives, else Exited(status)

vars == <<pc, flags, profiler, logger, broadcaster, mgr, recorder, ctx, ctxHolders,
          reconcilers, webhooks, readyz, healthz, steps, failedStep,
          leaseAttempts, exit>>

----------------------------------------------------------------------------
(* Bounds of the model *)

MaxLeaseAttempts == 2

(* Program constants *)

DefaultWebhookPort == 9443
DefaultConcurrency == 10
BurstSize == 100
LeaseDurationSec == 15
RenewDeadlineSec == 10
RetryPeriodSec == 2
SyncPeriodMin == 10

(* Values that stand for "not yet" *)

Running == [exited |-> FALSE]
Exited(code) == [exited |-> TRUE, code |-> code]
NoBroadcaster == [none |-> TRUE]
NoManager == [none |-> TRUE]
NoCtx == "none"
SignalCtx == "signal"
NoStep == "none"

(* Values the command line may give the flags the model varies *)

WebhookPorts == {0, DefaultWebhookPort, 8443, -1}
Concurrencies == {1, DefaultConcurrency}
ProfilerAddresses == {"", "localhost:6060"}
Namespaces == {"", "capg-system"}

----------------------------------------------------------------------------
(* The flag variables before initFlags: Go zero values. *)
ZeroFlags ==
    [ enableLeaderElection        |-> FALSE,
      metricsAddr                 |-> "",
      leaderElectionNamespace     |-> "",
      watchNamespace              |-> "",
      profilerAddress             |-> "",
      healthAddr                  |-> "",
      watchFilterValue            |-> "",
      gcpClusterConcurrency       |-> 0,
      gcpMachineConcurrency       |-> 0,
      webhookPort                 |-> 0,
      leaderElectionLeaseDuration |-> 0,
      leaderElectionRenewDeadline |-> 0,
      leaderElectionRetryPeriod   |-> 0,
      syncPeriod                  |-> 0,
      reconcileTimeout            |-> "0" ]

(* The defaults initFlags registers. *)
DefaultFlags ==
    [ enableLeaderElection        |-> FALSE,
      metricsAddr                 |-> ":8080",
      leaderElectionNamespace     |-> "",
      watchNamespace              |-> "",
      profilerAddress             |-> "",
      healthAddr                  |-> ":9440",
      watchFilterValue            |-> "",
      gcpClusterConcurrency       |-> DefaultConcurrency,
      gcpMachineConcurrency       |-> DefaultConcurrency,
      webhookPort                 |-> DefaultWebhookPort,
      leaderElectionLeaseDuration |-> LeaseDurationSec,
      leaderElectionRenewDeadline |-> RenewDeadlineSec,
      leaderElectionRetryPeriod   |-> RetryPeriodSec,
      syncPeriod                  |-> SyncPeriodMin,
      reconcileTimeout            |-> "reconciler.DefaultLoopTimeout" ]

Init ==
    /\ pc = "initFlags"
    /\ flags = ZeroFlags
    /\ profiler = "off"
    /\ logger = FALSE
    /\ broadcaster = NoBroadcaster
    /\ mgr = NoManager
    /\ recorder = ""
    /\ ctx = NoCtx
    /\ ctxHolders = {}
    /\ reconcilers = {}
    /\ webhooks = {}
    /\ readyz = {}
    /\ healthz = {}
    /\ steps = <<>>
    /\ failedStep = NoStep
    /\ leaseAttempts = 0
    /\ exit = Running

----------------------------------------------------------------------------
(* Helpers *)

Alive == exit = Running

(* setupLog.Error(...); os.Exit(1) after the call `step` returned an error *)
ExitOnError(step) ==
    /\ failedStep' = step
    /\ exit' = Exited(1)
    /\ pc' = "exited"

(* The call `step` returned nil: main() moves on to `next`. *)
Proceed(next) ==
    /\ pc' = next
    /\ UNCHANGED <<failedStep, exit>>

(* Mutant of ReconcilerMode: the condition inverted. *)
ReconcilerMode_Inverted == flags.webhookPort # 0

(* webhookPort == 0, the condition of the if of line 132 *)
ReconcilerMode == flags.webhookPort = 0

(* Mutant of Options: leader election switched on whatever the flag says. *)
Options_LeaderElectionForced ==
    [ MetricsBindAddress      |-> flags.metricsAddr,
      LeaderElection          |-> TRUE,
      LeaderElectionID        |-> "controller-leader-election-capg",
      LeaderElectionNamespace |-> flags.leaderElectionNamespace,
      LeaseDuration           |-> flags.leaderElectionLeaseDuration,
      RenewDeadline           |-> flags.leaderElectionRenewDeadline,
      RetryPeriod             |-> flags.leaderElectionRetryPeriod,
      SyncPeriod              |-> flags.syncPeriod,
      Namespace               |-> flags.watchNamespace,
      Port                    |-> flags.webhookPort,
      HealthProbeBindAddress  |-> flags.healthAddr,
      EventBroadcaster        |-> broadcaster ]

(* The ctrl.Options literal handed to ctrl.NewManager. *)
Options ==
    [ MetricsBindAddress      |-> flags.metricsAddr,
      LeaderElection          |-> flags.enableLeaderElection,
      LeaderElectionID        |-> "controller-leader-election-capg",
      LeaderElectionNamespace |-> flags.leaderElectionNamespace,
      LeaseDuration           |-> flags.leaderElectionLeaseDuration,
      RenewDeadline           |-> flags.leaderElectionRenewDeadline,
      RetryPeriod             |-> flags.leaderElectionRetryPeriod,
      SyncPeriod              |-> flags.syncPeriod,
      Namespace               |-> flags.watchNamespace,
      Port                    |-> flags.webhookPort,
      HealthProbeBindAddress  |-> flags.healthAddr,
      EventBroadcaster        |-> broadcaster ]

(* The reconciler literals of lines 133-138 and 142-147 with their controller.Options. *)
GCPMachineReconciler ==
    [ kind                    |-> "GCPMachine",
      ReconcileTimeout        |-> flags.reconcileTimeout,
      WatchFilterValue        |-> flags.watchFilterValue,
      MaxConcurrentReconciles |-> flags.gcpMachineConcurrency ]

GCPClusterReconciler ==
    [ kind                    |-> "GCPCluster",
      ReconcileTimeout        |-> flags.reconcileTimeout,
      WatchFilterValue        |-> flags.watchFilterValue,
      MaxConcurrentReconciles |-> flags.gcpClusterConcurrency ]

----------------------------------------------------------------------------
(* main(), one action per statement *)

(* initFlags(pflag.CommandLine): every flag variable gets its default. *)
InitFlags ==
    /\ pc = "initFlags"
    /\ Alive
    /\ flags' = DefaultFlags
    /\ pc' = "parse"
    /\ UNCHANGED <<profiler, logger, broadcaster, mgr, recorder, ctx, ctxHolders,
                   reconcilers, webhooks, readyz, healthz, steps, failedStep,
                   leaseAttempts, exit>>

(* pflag.Parse(): the command line overrides any subset of the defaults. *)
Parse ==
    /\ pc = "parse"
    /\ Alive
    /\ \E port \in WebhookPorts, le \in BOOLEAN, prof \in ProfilerAddresses,
          ns \in Namespaces, mc \in Concurrencies, cc \in Concurrencies :
          flags' = [flags EXCEPT !.webhookPort = port,
                                 !.enableLeaderElection = le,
                                 !.profilerAddress = prof,
                                 !.watchNamespace = ns,
                                 !.gcpMachineConcurrency = mc,
                                 !.gcpClusterConcurrency = cc]
    /\ pc' = "startProfiler"
    /\ UNCHANGED <<profiler, logger, broadcaster, mgr, recorder, ctx, ctxHolders,
                   reconcilers, webhooks, readyz, healthz, steps, failedStep,
                   leaseAttempts, exit>>

(* Lines 87-96: the namespace is only logged; the pprof server is started in a *)
(* goroutine when an address was given.                                      *)
StartProfiler ==
    /\ pc = "startProfiler"
    /\ Alive
    /\ profiler' = IF flags.profilerAddress # "" THEN "serving" ELSE "off"
    /\ pc' = "setLogger"
    /\ UNCHANGED <<flags, logger, broadcaster, mgr, recorder, ctx, ctxHolders,
                   reconcilers, webhooks, readyz, healthz, steps, failedStep,
                   leaseAttempts, exit>>

(* The goroutine of lines 93-95: http.ListenAndServe returns, the error is logged *)
(* and the goroutine ends; main() is not told.                                  *)
ProfilerFails ==
    /\ profiler = "serving"
    /\ Alive
    /\ profiler' = "failed"
    /\ UNCHANGED <<pc, flags, logger, broadcaster, mgr, recorder, ctx, ctxHolders,
                   reconcilers, webhooks, readyz, healthz, steps, failedStep,
                   leaseAttempts, exit>>

(* ctrl.SetLogger(klogr.New()) *)
SetLogger ==
    /\ pc = "setLogger"
    /\ Alive
    /\ logger' = TRUE
    /\ pc' = "newBroadcaster"
    /\ UNCHANGED <<flags, profiler, broadcaster, mgr, recorder, ctx, ctxHolders,
                   reconcilers, webhooks, readyz, healthz, steps, failedStep,
                   leaseAttempts, exit>>

(* cgrecord.NewBroadcasterWithCorrelatorOptions(...) *)
NewBroadcaster ==
    /\ pc = "newBroadcaster"
    /\ Alive
    /\ broadcaster' = [BurstSize |-> BurstSize]
    /\ pc' = "newManager"
    /\ UNCHANGED <<flags, profiler, logger, mgr, recorder, ctx, ctxHolders,
                   reconcilers, webhooks, readyz, healthz, steps, failedStep,
                   leaseAttempts, exit>>

(* mgr, err := ctrl.NewManager(...); if err != nil { os.Exit(1) } *)
NewManager ==
    /\ pc = "newManager"
    /\ Alive
    /\ steps' = Append(steps, "newManager")
    /\ \E err \in BOOLEAN :
          IF err
          THEN /\ ExitOnError("newManager")
               /\ UNCHANGED mgr
          ELSE /\ mgr' = Options
               /\ Proceed("initRecorder")
    /\ UNCHANGED <<flags, profiler, logger, broadcaster, recorder, ctx, ctxHolders,
                   reconcilers, webhooks, readyz, healthz, leaseAttempts>>

(* record.InitFromRecorder(mgr.GetEventRecorderFor("gcp-controller")) *)
InitRecorder ==
    /\ pc = "initRecorder"
    /\ Alive
    /\ recorder' = "gcp-controller"
    /\ steps' = Append(steps, "initRecorder")
    /\ pc' = "setupSignalHandler"
    /\ UNCHANGED <<flags, profiler, logger, broadcaster, mgr, ctx, ctxHolders,
                   reconcilers, webhooks, readyz, healthz, failedStep,
                   leaseAttempts, exit>>

(* Mutant of SetupSignalHandler: the handlers are set up with no context made. *)
SetupSignalHandler_NoContext ==
    /\ pc = "setupSignalHandler"
    /\ Alive
    /\ steps' = Append(steps, "setupSignalHandler")
    /\ pc' = IF ReconcilerMode THEN "setupGCPMachineReconciler"
                               ELSE "setupGCPMachineTemplateWebhook"
    /\ UNCHANGED <<flags, profiler, logger, broadcaster, mgr, recorder, ctx, ctxHolders,
                   reconcilers, webhooks, readyz, healthz, failedStep,
                   leaseAttempts, exit>>

(* ctx := ctrl.SetupSignalHandler(), then the if of line 132 *)
SetupSignalHandler ==
    /\ pc = "setupSignalHandler"
    /\ Alive
    /\ ctx' = SignalCtx
    /\ steps' = Append(steps, "setupSignalHandler")
    /\ pc' = IF ReconcilerMode THEN "setupGCPMachineReconciler"
                               ELSE "setupGCPMachineTemplateWebhook"
    /\ UNCHANGED <<flags, profiler, logger, broadcaster, mgr, recorder, ctxHolders,
                   reconcilers, webhooks, readyz, healthz, failedStep,
                   leaseAttempts, exit>>

(* (&controllers.GCPMachineReconciler{...}).SetupWithManager(ctx, mgr, ...) *)
SetupGCPMachineReconciler ==
    /\ pc = "setupGCPMachineReconciler"
    /\ Alive
    /\ steps' = Append(steps, "GCPMachineReconciler")
    /\ \E err \in BOOLEAN :
          IF err
          THEN /\ ExitOnError("GCPMachineReconciler")
               /\ UNCHANGED <<reconcilers, ctxHolders>>
          ELSE /\ reconcilers' = reconcilers \cup {GCPMachineReconciler}
               /\ ctxHolders' = ctxHolders \cup {<<"GCPMachineReconciler", ctx>>}
               /\ Proceed("setupGCPClusterReconciler")
    /\ UNCHANGED <<flags, profiler, logger, broadcaster, mgr, recorder, ctx,
                   webhooks, readyz, healthz, leaseAttempts>>

(* (&controllers.GCPClusterReconciler{...}).SetupWithManager(ctx, mgr, ...) *)
SetupGCPClusterReconciler ==
    /\ pc = "setupGCPClusterReconciler"
    /\ Alive
    /\ steps' = Append(steps, "GCPClusterReconciler")
    /\ \E err \in BOOLEAN :
          IF err
          THEN /\ ExitOnError("GCPClusterReconciler")
               /\ UNCHANGED <<reconcilers, ctxHolders>>
          ELSE /\ reconcilers' = reconcilers \cup {GCPClusterReconciler}
               /\ ctxHolders' = ctxHolders \cup {<<"GCPClusterReconciler", ctx>>}
               /\ Proceed("addReadyzCheck")
    /\ UNCHANGED <<flags, profiler, logger, broadcaster, mgr, recorder, ctx,
                   webhooks, readyz, healthz, leaseAttempts>>

(* (&infrav1alpha4.GCPMachineTemplate{}).SetupWebhookWithManager(mgr) *)
SetupGCPMachineTemplateWebhook ==
    /\ pc = "setupGCPMachineTemplateWebhook"
    /\ Alive
    /\ steps' = Append(steps, "GCPMachineTemplateWebhook")
    /\ \E err \in BOOLEAN :
          IF err
          THEN /\ ExitOnError("GCPMachineTemplateWebhook")
               /\ UNCHANGED webhooks
          ELSE /\ webhooks' = webhooks \cup {"GCPMachineTemplate"}
               /\ Proceed("setupGCPMachineWebhook")
    /\ UNCHANGED <<flags, profiler, logger, broadcaster, mgr, recorder, ctx, ctxHolders,
                   reconcilers, readyz, healthz, leaseAttempts>>

(* (&infrav1alpha4.GCPMachine{}).SetupWebhookWithManager(mgr) *)
SetupGCPMachineWebhook ==
    /\ pc = "setupGCPMachineWebhook"
    /\ Alive
    /\ steps' = Append(steps, "GCPMachineWebhook")
    /\ \E err \in BOOLEAN :
          IF err
          THEN /\ ExitOnError("GCPMachineWebhook")
               /\ UNCHANGED webhooks
          ELSE /\ webhooks' = webhooks \cup {"GCPMachine"}
               /\ Proceed("addReadyzCheck")
    /\ UNCHANGED <<flags, profiler, logger, broadcaster, mgr, recorder, ctx, ctxHolders,
                   reconcilers, readyz, healthz, leaseAttempts>>

(* mgr.AddReadyzCheck("ping", healthz.Ping) *)
AddReadyzCheck ==
    /\ pc = "addReadyzCheck"
    /\ Alive
    /\ steps' = Append(steps, "readyz")
    /\ \E err \in BOOLEAN :
          IF err
          THEN /\ ExitOnError("readyz")
               /\ UNCHANGED readyz
          ELSE /\ readyz' = readyz \cup {"ping"}
               /\ Proceed("addHealthzCheck")
    /\ UNCHANGED <<flags, profiler, logger, broadcaster, mgr, recorder, ctx, ctxHolders,
                   reconcilers, webhooks, healthz, leaseAttempts>>

(* Mutant of AddHealthzCheck: the error is logged and main() carries on. *)
AddHealthzCheck_NoExit ==
    /\ pc = "addHealthzCheck"
    /\ Alive
    /\ steps' = Append(steps, "healthz")
    /\ \E err \in BOOLEAN :
          IF err
          THEN /\ failedStep' = "healthz"
               /\ pc' = "start"
               /\ UNCHANGED <<healthz, exit>>
          ELSE /\ healthz' = healthz \cup {"ping"}
               /\ Proceed("start")
    /\ UNCHANGED <<flags, profiler, logger, broadcaster, mgr, recorder, ctx, ctxHolders,
                   reconcilers, webhooks, readyz, leaseAttempts>>

(* mgr.AddHealthzCheck("ping", healthz.Ping) *)
AddHealthzCheck ==
    /\ pc = "addHealthzCheck"
    /\ Alive
    /\ steps' = Append(steps, "healthz")
    /\ \E err \in BOOLEAN :
          IF err
          THEN /\ ExitOnError("healthz")
               /\ UNCHANGED healthz
          ELSE /\ healthz' = healthz \cup {"ping"}
               /\ Proceed("start")
    /\ UNCHANGED <<flags, profiler, logger, broadcaster, mgr, recorder, ctx, ctxHolders,
                   reconcilers, webhooks, readyz, leaseAttempts>>

(* mgr.Start(ctx) is entered: the manager built from Options runs. *)
StartManager ==
    /\ pc = "start"
    /\ Alive
    /\ steps' = Append(steps, "start")
    /\ ctxHolders' = ctxHolders \cup {<<"mgr.Start", ctx>>}
    /\ pc' = "running"
    /\ UNCHANGED <<flags, profiler, logger, broadcaster, mgr, recorder, ctx,
                   reconcilers, webhooks, readyz, healthz, failedStep,
                   leaseAttempts, exit>>

(* While mgr.Start runs: a manager whose Options.LeaderElection is set contends *)
(* for the lease Options.LeaderElectionID; one without it never does.           *)
TryAcquireLease ==
    /\ pc = "running"
    /\ Alive
    /\ mgr.LeaderElection
    /\ leaseAttempts < MaxLeaseAttempts
    /\ leaseAttempts' = leaseAttempts + 1
    /\ UNCHANGED <<pc, flags, profiler, logger, broadcaster, mgr, recorder, ctx,
                   ctxHolders, reconcilers, webhooks, readyz, healthz, steps,
                   failedStep, exit>>

(* mgr.Start(ctx) returns: an error is logged and the process exits 1; on nil *)
(* main() returns and the process exits 0.                                    *)
StartReturns ==
    /\ pc = "running"
    /\ Alive
    /\ \E err \in BOOLEAN :
          IF err
          THEN ExitOnError("start")
          ELSE /\ exit' = Exited(0)
               /\ pc' = "exited"
               /\ UNCHANGED failedStep
    /\ UNCHANGED <<flags, profiler, logger, broadcaster, mgr, recorder, ctx, ctxHolders,
                   reconcilers, webhooks, readyz, healthz, steps, leaseAttempts>>

Next ==
    \/ InitFlags
    \/ Parse
    \/ StartProfiler
    \/ ProfilerFails
    \/ SetLogger
    \/ NewBroadcaster
    \/ NewManager
    \/ InitRecorder
    \/ SetupSignalHandler
    \/ SetupGCPMachineReconciler
    \/ SetupGCPClusterReconciler
    \/ SetupGCPMachineTemplateWebhook
    \/ SetupGCPMachineWebhook
    \/ AddReadyzCheck
    \/ AddHealthzCheck
    \/ StartManager
    \/ TryAcquireLease
    \/ StartReturns

Spec == Init /\ [][Next]_vars

----------------------------------------------------------------------------
(* Properties *)

ReconcilerKinds == {r.kind : r \in reconcilers}
FlagsParsed == pc \notin {"initFlags", "parse"}
(* main() got past the if/else of lines 132-160 *)
SetupDone ==
    \/ pc \in {"addReadyzCheck", "addHealthzCheck", "start", "running"}
    \/ pc = "exited" /\ (failedStep \in {"readyz", "healthz", "start"} \/ exit = Exited(0))
Started == \E i \in 1..Len(steps) : steps[i] = "start"

C2_State ==
    /\ ~(reconcilers # {} /\ webhooks # {})
    /\ FlagsParsed /\ flags.webhookPort = 0 => webhooks = {}
    /\ FlagsParsed /\ flags.webhookPort # 0 => reconcilers = {}
    /\ ReconcilerKinds \subseteq {"GCPMachine", "GCPCluster"}
    /\ webhooks \subseteq {"GCPMachineTemplate", "GCPMachine"}
    /\ SetupDone /\ flags.webhookPort = 0 => ReconcilerKinds = {"GCPMachine", "GCPCluster"}
    /\ SetupDone /\ flags.webhookPort # 0 => webhooks = {"GCPMachineTemplate", "GCPMachine"}

C2_Step ==
    /\ FlagsParsed => flags'.webhookPort = flags.webhookPort
    /\ SetupDone => reconcilers' = reconcilers /\ webhooks' = webhooks

(* C2: webhookPort = 0 installs the two reconcilers and no webhook, any other  *)
(* webhookPort installs the two webhooks and no reconciler; no state has a     *)
(* reconciler and a webhook registered together; and once the branch has run   *)
(* neither webhookPort nor the installed sets change.                          *)
C2_ModeExclusive == [](C2_State) /\ [][C2_Step]_vars

C2_Witness ==
    /\ pc = "running"
    /\ flags.webhookPort = 0
    /\ ReconcilerKinds = {"GCPMachine", "GCPCluster"}
    /\ webhooks = {}

(* C4 as stated: in webhook mode the manager is never given leader election    *)
(* and no lease acquisition is attempted, whatever leader-elect is.            *)
C4_Original ==
    FlagsParsed /\ flags.webhookPort # 0 =>
        /\ mgr # NoManager => ~mgr.LeaderElection
        /\ leaseAttempts = 0

(* C4 amended: the manager's leader election is exactly the leader-elect flag  *)
(* in both modes, so in webhook mode no lease acquisition is attempted when    *)
(* leader-elect is false (the default), and none without leader-elect in any   *)
(* mode.                                                                       *)
C4_LeaseFollowsFlag ==
    /\ mgr # NoManager => mgr.LeaderElection = flags.enableLeaderElection
    /\ leaseAttempts > 0 => flags.enableLeaderElection
    /\ FlagsParsed /\ flags.webhookPort # 0 /\ ~flags.enableLeaderElection
          => leaseAttempts = 0

C4_Witness ==
    /\ pc = "exited"
    /\ exit = Exited(0)
    /\ flags.webhookPort # 0
    /\ ~flags.enableLeaderElection
    /\ webhooks = {"GCPMachineTemplate", "GCPMachine"}
    /\ leaseAttempts = 0

NoRepeat(seq) == \A i, j \in 1..Len(seq) : seq[i] = seq[j] => i = j

(* C9: a failed startup call ends the process at once with status 1: it is the *)
(* last call made, no call is made twice, and the manager is not started after *)
(* it; status 0 comes only from mgr.Start returning nil.                       *)
C9_FailFast ==
    /\ failedStep # NoStep =>
          /\ exit = Exited(1)
          /\ pc = "exited"
          /\ steps # <<>>
          /\ steps[Len(steps)] = failedStep
    /\ failedStep \notin {NoStep, "start"} => ~Started
    /\ NoRepeat(steps)
    /\ exit # Running => exit \in {Exited(0), Exited(1)}
    /\ exit = Exited(1) => failedStep # NoStep
    /\ exit = Exited(0) => failedStep = NoStep /\ Started /\ steps[Len(steps)] = "start"

C9_Witness ==
    /\ exit = Exited(1)
    /\ failedStep = "GCPClusterReconciler"
    /\ ReconcilerKinds = {"GCPMachine"}
    /\ ~Started

(* C10 as stated: nothing is constructed while the context does not exist.     *)
C10_Original ==
    (\/ broadcaster # NoBroadcaster
     \/ mgr # NoManager
     \/ recorder # ""
     \/ reconcilers # {}
     \/ webhooks # {}
     \/ readyz # {}
     \/ healthz # {}) => ctx # NoCtx

(* C10 amended: the context is made after the event broadcaster, the manager   *)
(* and the event recorder, and before any reconciler, webhook or health check  *)
(* is set up and before the manager is started; the reconcilers and mgr.Start  *)
(* are each handed that one context, and nothing else is.                      *)
C10_ContextBeforeSetup ==
    /\ ctx # NoCtx =>
          /\ ctx = SignalCtx
          /\ broadcaster # NoBroadcaster
          /\ mgr # NoManager
          /\ recorder # ""
    /\ (reconcilers # {} \/ webhooks # {} \/ readyz # {} \/ healthz # {} \/ Started)
          => ctx = SignalCtx
    /\ \A h \in ctxHolders :
          /\ h[1] \in {"GCPMachineReconciler", "GCPClusterReconciler", "mgr.Start"}
          /\ h[2] = SignalCtx
    /\ "GCPMachine" \in ReconcilerKinds => <<"GCPMachineReconciler", SignalCtx>> \in ctxHolders
    /\ "GCPCluster" \in ReconcilerKinds => <<"GCPClusterReconciler", SignalCtx>> \in ctxHolders
    /\ Started => <<"mgr.Start", SignalCtx>> \in ctxHolders

C10_Witness ==
    /\ pc = "running"
    /\ ctx = SignalCtx
    /\ ctxHolders = {<<"GCPMachineReconciler", SignalCtx>>,
                     <<"GCPClusterReconciler", SignalCtx>>,
                     <<"mgr.Start", SignalCtx>>}
    /\ readyz = {"ping"}
    /\ healthz = {"ping"}

====
